---- MODULE Spec2Model ----
(***************************************************************************)
(* Student management dashboard (src/app.py, src/auth.py and the batch     *)
(* scripts): the student-record store students.json and the operations     *)
(* that read, change and write it.                                         *)
(*                                                                         *)
(* One script run of the Streamlit application is main(): the sidebar      *)
(* first calls load_students() (app.py:2287) and then the selected page    *)
(* runs its handler.  The model splits a run into these two steps with     *)
(* pc: "idle" (between runs), "page" (sidebar done, handler to run).       *)
(* main() runs the sidebar only in a session that require_auth() lets      *)
(* pass; the page is the one the sidebar selected (menu_option).           *)
(* update_student_marks is dispatched by main() on a label the sidebar     *)
(* never yields; the specifications that check the handler enter its page  *)
(* directly (UpdateMarksPage), SpecNavigation does not.                    *)
(*                                                                         *)
(* Text is a sequence of one-character strings, so that str.strip() is     *)
(* computed.  Marks are Python floats; the model keeps them as integers    *)
(* counting half marks (Pts(90) is 90.0), which is exact for every value   *)
(* the bounded inputs can produce (means of at most two course grades).    *)
(* A JSON object is a function whose DOMAIN is the set of keys present.    *)
(***************************************************************************)
EXTENDS Integers, Sequences, FiniteSets, TLC

VARIABLES
    file,   \* content of students.json: a sequence of student objects
    mem,    \* the list `students` the last handler held in memory when it ended
    pc,     \* position in the script run: "idle" | "page"
    last,   \* what the last handler did: operation, arguments, outcome, counts
    on_disk,            \* what students.json is: "records" (file holds them),
                        \* "absent", or a kind of content that is not an array
                        \* of objects
    show_reset_modal,   \* st.session_state.show_reset_modal
    teachers,           \* content of teachers.json: a sequence of credentials
    authenticated,      \* st.session_state.authenticated
    teacher_data,       \* st.session_state.teacher_data
    menu_option,        \* the local menu_option of main() during a script run
    writers             \* the concurrent writers of students.json: for each its
                        \* position and its local list `students`

vars == <<file, mem, pc, last, on_disk, show_reset_modal, teachers,
          authenticated, teacher_data, menu_option, writers>>

----------------------------------------------------------------------------
(* Bounds of the model *)

MaxStudents == 2    \* longest students.json the handlers may produce
MaxRows == 2        \* longest uploaded table of valid rows
GradeMargin == 10   \* half marks below 0 and above 100 given to the grade policy
MaxTeachers == 2    \* longest teachers.json register_teacher may produce

----------------------------------------------------------------------------
(* Numbers and text *)

\* n marks as a float, in half marks
Pts(n) == 2 * n

\* str.strip(): drop leading and trailing whitespace
RECURSIVE LStrip(_)
LStrip(s) == IF s # <<>> /\ Head(s) = " " THEN LStrip(Tail(s)) ELSE s

RECURSIVE RStrip(_)
RStrip(s) == IF s # <<>> /\ s[Len(s)] = " " THEN RStrip(SubSeq(s, 1, Len(s) - 1)) ELSE s

Strip(s) == RStrip(LStrip(s))

\* d[k] = v on a dict
Put(d, k, v) == [x \in (DOMAIN d) \cup {k} |-> IF x = k THEN v ELSE d[x]]

\* d.get(k, default)
Get(d, k, default) == IF k \in DOMAIN d THEN d[k] ELSE default

----------------------------------------------------------------------------
(* Grade policy *)

\* variant: the A threshold excludes 90 itself
calculate_grade_strict(marks) ==
    IF marks > Pts(90) THEN "A"
    ELSE IF marks >= Pts(80) THEN "B"
    ELSE IF marks >= Pts(70) THEN "C"
    ELSE IF marks >= Pts(60) THEN "D"
    ELSE "F"

calculate_grade(marks) ==
    IF marks >= Pts(90) THEN "A"
    ELSE IF marks >= Pts(80) THEN "B"
    ELSE IF marks >= Pts(70) THEN "C"
    ELSE IF marks >= Pts(60) THEN "D"
    ELSE "F"

\* calculate_grade of generate_students.py
generate_calculate_grade(marks) ==
    IF marks >= Pts(90) THEN "A"
    ELSE IF marks >= Pts(80) THEN "B"
    ELSE IF marks >= Pts(70) THEN "C"
    ELSE IF marks >= Pts(60) THEN "D"
    ELSE "F"

----------------------------------------------------------------------------
(* Record store *)

\* json.dump of the whole list over the file: the file then holds the list
save_students(students) == students

\* a marks value that float() rejects with ValueError or TypeError ("abc", null),
\* kept as a number outside every range of marks
NotANumber == -1000

\* the backfill of one record in load_students
Backfill(s) ==
    LET g == IF "grade" \notin DOMAIN s /\ "marks" \in DOMAIN s
             THEN IF s["marks"] # NotANumber
                  THEN Put(s, "grade", calculate_grade(s["marks"]))
                  ELSE Put(s, "grade", "F")
             ELSE s
    IN  IF "registered_courses" \notin DOMAIN g
        THEN Put(g, "registered_courses", <<>>)
        ELSE g

\* load_students() on a file holding f: the list returned, the file afterwards
\* and the number of save_students calls made
load_students(f) ==
    LET students == [i \in 1..Len(f) |-> Backfill(f[i])]
        rerecord == \E i \in 1..Len(f) : students[i] # f[i]
    IN  [students |-> students,
         file     |-> IF rerecord THEN save_students(students) ELSE f,
         saves    |-> IF rerecord THEN 1 ELSE 0]

\* what json.load gives for a students.json that is valid JSON and not an array
\* of objects: null, a number, a string, an object with keys, an array of
\* numbers; load_students raises TypeError on each of them in its loop
NotRecords == {"null", "number", "string", "object", "scalars"}

\* one call of load_students(), the file as it is found
LoadStudents ==
    /\ pc = "idle"
    /\ IF on_disk = "absent"
       THEN \* init_data_file writes [] and the load reads it back
            /\ on_disk' = "records"
            /\ file' = <<>>
            /\ mem' = <<>>
            /\ last' = [op |-> "load_students", outcome |-> "ok", args |-> <<on_disk>>,
                        added |-> 0, skipped |-> 0, saves |-> 0]
       ELSE IF on_disk = "invalid_json"
       THEN \* json.JSONDecodeError is caught: students = []
            /\ mem' = <<>>
            /\ last' = [op |-> "load_students", outcome |-> "ok", args |-> <<on_disk>>,
                        added |-> 0, skipped |-> 0, saves |-> 0]
            /\ UNCHANGED <<file, on_disk>>
       ELSE IF on_disk = "empty_object"
       THEN \* {}: the loop has nothing to visit and the empty dict is returned
            /\ mem' = <<>>
            /\ last' = [op |-> "load_students", outcome |-> "ok", args |-> <<on_disk>>,
                        added |-> 0, skipped |-> 0, saves |-> 0]
            /\ UNCHANGED <<file, on_disk>>
       ELSE IF on_disk \in NotRecords
       THEN \* the loop raises TypeError, which load_students does not catch
            /\ last' = [op |-> "load_students", outcome |-> "TypeError",
                        args |-> <<on_disk>>, added |-> 0, skipped |-> 0, saves |-> 0]
            /\ UNCHANGED <<file, mem, on_disk>>
       ELSE /\ on_disk = "records"
            /\ file' = load_students(file).file
            /\ mem' = load_students(file).students
            /\ last' = [op |-> "load_students", outcome |-> "ok", args |-> <<on_disk>>,
                        added |-> 0, skipped |-> 0,
                        saves |-> load_students(file).saves]
            /\ UNCHANGED on_disk
    /\ UNCHANGED <<pc, show_reset_modal, teachers, authenticated, teacher_data,
                   menu_option, writers>>

----------------------------------------------------------------------------
(* Inputs *)

\* what the forms can pass to add_student
NameInputs == {<<"A", " ">>, <<" ">>}
RollInputs == {<<" ", "S", "1">>, <<"s", "1">>, <<" ">>}
MarksInputs == {Pts(0) - 1, Pts(0), Pts(100), Pts(100) + 1}

\* what st.number_input(.., 0.0, 100.0, ..) can return
WidgetMarks == {Pts(0), Pts(85), Pts(100)}

\* rows of an uploaded table: a cell that is empty (NaN) is a missing key; a marks
\* cell is a number [num |-> n] or text that is no number [text |-> t]
ValidRows ==
    { [name |-> <<"A">>, roll_no |-> <<"S", "1">>, marks |-> [num |-> Pts(85)]],
      [name |-> <<"B">>, roll_no |-> <<"S", "1">>, marks |-> [num |-> Pts(100)]],
      [name |-> <<"B">>, roll_no |-> <<" ", "s", "1">>, marks |-> [num |-> Pts(85)]] }

InvalidRows ==
    { [name |-> <<"A">>, marks |-> [num |-> Pts(85)]],
      [name |-> <<"A">>, roll_no |-> <<"s", "1">>, marks |-> [text |-> <<"x">>]],
      [name |-> <<"A">>, roll_no |-> <<"s", "1">>, marks |-> [num |-> Pts(100) + 1]] }

\* tables of valid rows, and tables that start with a row to be dropped
Tables ==
    UNION {[1..n -> ValidRows] : n \in 0..MaxRows}
    \cup {<<bad>> : bad \in InvalidRows}
    \cup {<<bad, row>> : bad \in InvalidRows, row \in ValidRows}

RequiredColumns == {"name", "roll_no", "marks"}

\* an uploaded file: its extension, its columns and its rows
UploadInputs ==
    {[ext |-> "txt", columns |-> RequiredColumns, rows |-> <<>>],
     [ext |-> "csv", columns |-> {"name", "roll_no"}, rows |-> <<>>]}
    \cup {[ext |-> "csv", columns |-> RequiredColumns, rows |-> t] : t \in Tables}
    \cup {[ext |-> "xlsx", columns |-> RequiredColumns, rows |-> t] :
                t \in [1..1 -> ValidRows]}

\* courses.json: the course catalogue, which the application only reads
Courses ==
    << [course_id |-> "C1", max_students |-> 2],
       [course_id |-> "C2", max_students |-> 1] >>

CourseIds == {Courses[j]["course_id"] : j \in 1..Len(Courses)}

\* a widget the user has typed into is a key of the widget state; a widget left
\* alone returns its default
OverallKey == <<"new_overall_marks">>
CourseKey(course_id) == <<"course_marks", course_id>>
CourseWidget == {Pts(50), Pts(100)}
CourseEdits ==
    UNION {[K -> CourseWidget] : K \in SUBSET {CourseKey(c) : c \in CourseIds}}

\* st.number_input(label, min, max, value, step, key)
NumberInput(widgets, key, value) == Get(widgets, key, value)

\* the inputs of the roster operations tried on the store with course data
GradesRollInputs == {<<" ", "S", "1">>, <<"s", "1">>}
GradesMarks == {Pts(0), Pts(100)}
GradesAddMarks == GradesMarks \cup {Pts(0) - 1, Pts(100) + 1}
GradesUploads ==
    {[ext |-> "csv", columns |-> RequiredColumns,
      rows |-> << [name |-> <<"B">>, roll_no |-> r, marks |-> [num |-> m]] >>] :
        r \in GradesRollInputs, m \in {Pts(50), Pts(100) + 1}}
GradesOverallEdits == UNION {[K -> GradesMarks] : K \in SUBSET {OverallKey}}

\* the ranges and adjustments typed into the Bulk Operations tab
RangeInputs == {<<Pts(0), Pts(100)>>, <<Pts(60), Pts(100)>>}
AdjustInputs == {Pts(-50), Pts(0), Pts(50)}

\* attendance dates, and the wall clock pd.Timestamp.now()
Dates == {"2024-01-01", "2024-01-02"}
Times == {"10:30:00"}

\* students.json as found at start-up
InitFiles ==
    { <<>>,
      << [name |-> <<"A">>, roll_no |-> <<"S", "1">>, marks |-> Pts(55)] >> }

\* students.json with registered courses and course grades
StudentA ==
    [name |-> <<"A">>, roll_no |-> <<"S", "1">>, marks |-> Pts(50),
     grade |-> "F", registered_courses |-> <<"C1", "C2">>,
     course_grades |-> [C1 |-> Pts(50)]]

StudentB ==
    [name |-> <<"B">>, roll_no |-> <<"s", "1">>, marks |-> Pts(100),
     grade |-> "A", registered_courses |-> <<"C1">>]

\* records of a students.json written by hand or by an older version: marks a
\* number, not a number, or missing; with or without grade and registered_courses
LegacyRecords ==
    {[k \in K |-> r[k]] :
        K \in {{"name", "roll_no"} \cup O : O \in SUBSET {"marks", "grade", "registered_courses"}},
        r \in {[name |-> <<"A">>, roll_no |-> <<"S", "1">>, marks |-> m,
                grade |-> "F", registered_courses |-> <<"C1">>] :
                  m \in {Pts(55), NotANumber}}}

LegacyFiles == UNION {[1..n -> LegacyRecords] : n \in 0..MaxStudents}

\* a second student with a grade in a course both are registered for
StudentC ==
    [name |-> <<"B">>, roll_no |-> <<"s", "1">>, marks |-> Pts(50),
     grade |-> "F", registered_courses |-> <<"C1">>,
     course_grades |-> [C1 |-> Pts(50)]]

InitFilesGrades == { <<StudentA>>, <<StudentB>> }

InitFilesCourses == { <<StudentA>>, <<StudentA, StudentB>> }

----------------------------------------------------------------------------
(* The script run *)

NoArgs == <<>>

\* Python's None, and menu_option outside a run of main()
None == <<>>
NoOption == "none"

\* the handler returns (or reruns the script): the run is over
Return(op, outcome, args, students, f, saves, added, skipped) ==
    /\ file' = f
    /\ mem' = students
    /\ last' = [op |-> op, outcome |-> outcome, args |-> args,
                added |-> added, skipped |-> skipped, saves |-> saves]
    /\ pc' = "idle"
    /\ menu_option' = NoOption
    /\ UNCHANGED <<on_disk, show_reset_modal, teachers, authenticated, teacher_data,
                   writers>>

\* variant: every session passes
require_auth_open == TRUE

\* require_auth(): the session may see the application
require_auth == authenticated

\* main() up to the page dispatch, the sidebar having yielded menu_option = option:
\* require_auth() lets the run pass and the System Info loads the students
Main(option) ==
    /\ pc = "idle"
    /\ require_auth
    /\ on_disk = "records"
    /\ menu_option' = option
    /\ file' = load_students(file).file
    /\ mem' = load_students(file).students
    /\ last' = [op |-> "main", outcome |-> "ok", args |-> NoArgs,
                added |-> 0, skipped |-> 0, saves |-> load_students(file).saves]
    /\ pc' = "page"
    /\ UNCHANGED <<on_disk, show_reset_modal, teachers, authenticated, teacher_data,
                   writers>>

\* the selectbox "Choose an action:" and the radio "Student operations:"
MenuChoices ==
    <<"Admin Dashboard", "Student Profile Management", "Course Registration",
      "Grade Management", "Upload File", "Timetable and Scheduling",
      "Search and Query", "Attendance Tracking", "Student Performance Analytics",
      "Document Management">>
StudentOptions == <<"Add Student", "View Students", "Delete Student">>

\* the value menu_option has after the sidebar
MenuOption(choice, student_option) ==
    IF choice = "Student Profile Management" THEN student_option ELSE choice

\* a script run whose page the user chose in the sidebar
MainSidebar ==
    \E i \in 1..Len(MenuChoices), j \in 1..Len(StudentOptions) :
       Main(MenuOption(MenuChoices[i], StudentOptions[j]))

\* the labels the if/elif chain of main() compares menu_option with
Dispatched ==
    {"Admin Dashboard", "Add Student", "Upload File", "View Students",
     "Update Marks", "Delete Student", "Timetable and Scheduling",
     "Search and Query", "Attendance Tracking", "Course Registration",
     "Grade Management", "Student Performance Analytics", "Document Management"}

\* the Quick Actions of the dashboard, shown when there are students: the button
\* stores its label in st.session_state.menu_option, which nothing reads, and
\* reruns the script
QuickActions == {"Add Student", "Upload File"}

QuickAction(button) ==
    LET ld == load_students(file)
    IN  /\ pc = "page"
        /\ menu_option = "Admin Dashboard"
        /\ ld.students # <<>>
        /\ Return("quick_action", "ok", <<button>>, ld.students, ld.file,
                  ld.saves, 0, 0)

\* a script run with menu_option = "Update Marks", the label main() dispatches
\* update_student_marks on; MenuChoices and StudentOptions do not hold it
UpdateMarksPage == Main("Update Marks")

\* a run that only shows data: view_students, the dashboard, download_csv, and
\* any page on which no button is pressed
ViewStudents ==
    /\ pc = "page"
    /\ LET ld == load_students(file)
       IN  Return("view_students", "ok", NoArgs, ld.students, ld.file, ld.saves, 0, 0)

\* variant: the upper limit of marks is not checked
InvalidNoUpperLimit(name, roll_no, marks) ==
    \/ Strip(name) = <<>>
    \/ Strip(roll_no) = <<>>
    \/ marks < Pts(0)

\* the validation of add_student: some check reports an error
Invalid(name, roll_no, marks) ==
    \/ Strip(name) = <<>>
    \/ Strip(roll_no) = <<>>
    \/ marks < Pts(0) \/ marks > Pts(100)

\* variant: the roll number is compared as typed, not trimmed
IsDuplicateUntrimmed(students, roll_no) ==
    \E i \in 1..Len(students) : students[i]["roll_no"] = roll_no

\* the duplicate check of add_student
IsDuplicate(students, roll_no) ==
    \E i \in 1..Len(students) : students[i]["roll_no"] = Strip(roll_no)

\* variant: the grade of the new record is not derived from its marks
NewStudentNoGrade(name, roll_no, marks) ==
    [name |-> Strip(name), roll_no |-> Strip(roll_no),
     marks |-> marks, grade |-> "F"]

\* the record add_student appends
NewStudent(name, roll_no, marks) ==
    [name |-> Strip(name), roll_no |-> Strip(roll_no),
     marks |-> marks, grade |-> calculate_grade(marks)]

AddStudent(name, roll_no, marks) ==
    LET ld == load_students(file)
        students == ld.students
        added == Append(students, NewStudent(name, roll_no, marks))
    IN  /\ pc = "page"
        /\ menu_option = "Add Student"
        /\ IF Invalid(name, roll_no, marks)
           THEN Return("add_student", "ValidationError", <<roll_no>>,
                       students, ld.file, ld.saves, 0, 0)
           ELSE IF IsDuplicate(students, roll_no)
           THEN Return("add_student", "DuplicateKey", <<roll_no>>,
                       students, ld.file, ld.saves, 0, 0)
           ELSE /\ Len(students) < MaxStudents
                /\ Return("add_student", "ok", <<roll_no>>,
                          added, save_students(added), ld.saves + 1, 1, 0)

\* the loop of upload_file over the rows of df
RECURSIVE ImportRows(_, _, _, _, _)
ImportRows(df, existing_students, existing_rolls, added, skipped) ==
    IF df = <<>>
    THEN [students |-> existing_students, added |-> added, skipped |-> skipped]
    ELSE LET row == Head(df)
             roll_no == Strip(row["roll_no"])
         IN  IF roll_no \in existing_rolls
             THEN ImportRows(Tail(df), existing_students, existing_rolls,
                             added, skipped + 1)
             ELSE ImportRows(Tail(df),
                             Append(existing_students,
                                 [name |-> Strip(row["name"]), roll_no |-> roll_no,
                                  marks |-> row["marks"], grade |-> row["grade"]]),
                             existing_rolls, added + 1, skipped)

\* df.dropna()
HasAllCells(row) == RequiredColumns \subseteq DOMAIN row

\* pd.to_numeric(.., errors='coerce') followed by dropna(subset=["marks"])
IsNumeric(row) == "num" \in DOMAIN row["marks"]

\* df[(df["marks"] >= 0) & (df["marks"] <= 100)]
InRange(row) == row["marks"]["num"] >= Pts(0) /\ row["marks"]["num"] <= Pts(100)

\* the cleaned table of upload_file, with the grade column
CleanTable(rows) ==
    LET a == SelectSeq(rows, HasAllCells)
        b == SelectSeq(a, IsNumeric)
        c == SelectSeq(b, InRange)
    IN  [i \in 1..Len(c) |->
            [name |-> c[i]["name"], roll_no |-> c[i]["roll_no"],
             marks |-> c[i]["marks"]["num"],
             grade |-> calculate_grade(c[i]["marks"]["num"])]]

\* variant: upload_file saves whatever the count
SavesUploadAlways(added) == added >= 0

\* upload_file saves when a row was added
SavesUpload(added) == added > 0

UploadFile(uploaded_file) ==
    LET df == CleanTable(uploaded_file.rows)
        ld == load_students(file)
        existing_rolls == {ld.students[i]["roll_no"] : i \in 1..Len(ld.students)}
        r == ImportRows(df, ld.students, existing_rolls, 0, 0)
    IN  /\ pc = "page"
        /\ menu_option = "Upload File"
        /\ IF uploaded_file.ext \notin {"csv", "xlsx"}
           THEN Return("upload_file", "UnsupportedType", NoArgs, <<>>, file, 0, 0, 0)
           ELSE IF ~(RequiredColumns \subseteq uploaded_file.columns)
           THEN Return("upload_file", "MissingColumns", NoArgs, <<>>, file, 0, 0, 0)
           ELSE IF df = <<>>
           THEN Return("upload_file", "NoValidRecords", NoArgs, <<>>, file, 0, 0, 0)
           ELSE IF SavesUpload(r.added)
           THEN /\ Len(r.students) <= MaxStudents
                /\ Return("upload_file", IF r.added > 0 THEN "ok" ELSE "NoneAdded",
                          NoArgs, r.students, save_students(r.students),
                          ld.saves + 1, r.added, r.skipped)
           ELSE Return("upload_file", "NoneAdded", NoArgs, r.students, ld.file,
                       ld.saves, r.added, r.skipped)

\* the first record with this roll number: next((s for s in students if ..), None)
FirstIndex(students, roll_no) ==
    CHOOSE i \in 1..Len(students) :
        /\ students[i]["roll_no"] = roll_no
        /\ \A j \in 1..(i - 1) : students[j]["roll_no"] # roll_no

\* variant: the marks are set and the grade is left as it was
SetMarksKeepGrade(current_student, new_marks) ==
    Put(current_student, "marks", new_marks)

\* current_student["marks"] = new_marks and the grade of the new marks
SetMarks(current_student, new_marks) ==
    Put(Put(current_student, "marks", new_marks), "grade", calculate_grade(new_marks))

\* update_student_marks with the i-th entry of the select box and the button pressed
UpdateMarks(i, new_marks) ==
    LET ld == load_students(file)
        students == ld.students
    IN  /\ pc = "page"
        /\ menu_option = "Update Marks"
        /\ IF students = <<>>
           THEN /\ i = 1
                /\ Return("update_student_marks", "NoStudents", NoArgs,
                          students, ld.file, ld.saves, 0, 0)
           ELSE /\ i \in 1..Len(students)
                /\ LET roll_no == students[i]["roll_no"]
                       k == FirstIndex(students, roll_no)
                       current_marks == students[k]["marks"]
                       updated == [students EXCEPT
                                      ![k] = SetMarks(@, new_marks)]
                   IN  IF new_marks # current_marks
                       THEN Return("update_student_marks", "ok", <<roll_no>>,
                                updated, save_students(updated), ld.saves + 1, 0, 0)
                       ELSE Return("update_student_marks", "Unchanged", <<roll_no>>,
                                students, ld.file, ld.saves, 0, 0)

\* variant: only the first record with the roll number is removed
RECURSIVE WithoutFirst(_, _)
WithoutFirst(students, roll_no) ==
    IF students = <<>> THEN <<>>
    ELSE IF Head(students)["roll_no"] # roll_no
         THEN <<Head(students)>> \o WithoutFirst(Tail(students), roll_no)
         ELSE Tail(students)

\* [s for s in students if s["roll_no"] != roll_no]
RECURSIVE Without(_, _)
Without(students, roll_no) ==
    IF students = <<>> THEN <<>>
    ELSE IF Head(students)["roll_no"] # roll_no
         THEN <<Head(students)>> \o Without(Tail(students), roll_no)
         ELSE Without(Tail(students), roll_no)

\* delete_student with the i-th entry of the select box; the button is disabled
\* unless the confirmation box is ticked
DeleteStudent(i, confirm) ==
    LET ld == load_students(file)
        students == ld.students
    IN  /\ pc = "page"
        /\ menu_option = "Delete Student"
        /\ IF students = <<>>
           THEN /\ i = 1
                /\ Return("delete_student", "NoStudents", NoArgs,
                          students, ld.file, ld.saves, 0, 0)
           ELSE /\ i \in 1..Len(students)
                /\ IF confirm
                   THEN Return("delete_student", "ok", <<students[i]["roll_no"]>>,
                            students,
                            save_students(Without(students, students[i]["roll_no"])),
                            ld.saves + 1, 0, 0)
                   ELSE Return("delete_student", "NotConfirmed", NoArgs,
                            students, ld.file, ld.saves, 0, 0)

----------------------------------------------------------------------------
(* Grade management *)

\* the select boxes are built from a dict {f"{roll_no} - {name}": s}: of the
\* records with one label the last one is the student selected
Label(s) == <<s["roll_no"], s["name"]>>

Selected(students, i) ==
    CHOOSE k \in 1..Len(students) :
        /\ Label(students[k]) = Label(students[i])
        /\ \A j \in (k + 1)..Len(students) : Label(students[j]) # Label(students[i])

\* the loop over the course inputs of the Update Grades tab
RECURSIVE EditCourseGrades(_, _, _)
EditCourseGrades(registered_courses, course_grades, widgets) ==
    IF registered_courses = <<>> THEN course_grades
    ELSE LET course_id == Head(registered_courses)
             current_course_marks == Get(course_grades, course_id, Pts(0))
             new_course_marks ==
                 NumberInput(widgets, CourseKey(course_id), current_course_marks)
         IN  EditCourseGrades(Tail(registered_courses),
                 IF new_course_marks # current_course_marks
                 THEN Put(course_grades, course_id, new_course_marks)
                 ELSE course_grades,
                 widgets)

\* the Update Grades tab as rendered in every run of grade_management: the
\* student selected, the local course_grades and the list `students`.
\* student.get("course_grades", {}) is the student's own dict when the key is
\* there, so the loop changes the record in memory before any button is pressed
UpdateGradesTab(students, sel, widgets) ==
    LET k == Selected(students, sel)
        student == students[k]
        registered_courses == Get(student, "registered_courses", <<>>)
        course_grades ==
            EditCourseGrades(registered_courses,
                             Get(student, "course_grades", <<>>), widgets)
    IN  [k |-> k,
         registered_courses |-> registered_courses,
         course_grades |-> course_grades,
         students |-> IF "course_grades" \in DOMAIN student
                      THEN [students EXCEPT ![k] = Put(@, "course_grades", course_grades)]
                      ELSE students]

RECURSIVE SumValues(_, _)
SumValues(d, keys) ==
    IF keys = {} THEN 0
    ELSE LET k == CHOOSE x \in keys : TRUE
         IN  d[k] + SumValues(d, keys \ {k})

\* sum(course_grades.values()) / len(course_grades)
Mean(course_grades) ==
    SumValues(course_grades, DOMAIN course_grades) \div Cardinality(DOMAIN course_grades)

\* the Update Grades button
UpdateGrades(sel, overall, widgets) ==
    LET ld == load_students(file)
        tab == UpdateGradesTab(ld.students, sel, widgets)
        k == tab.k
        student == tab.students[k]
        new_marks == NumberInput(overall, OverallKey, student["marks"])
        s1 == IF new_marks # student["marks"]
              THEN Put(Put(student, "marks", new_marks),
                       "grade", calculate_grade(new_marks))
              ELSE student
        s2 == Put(s1, "course_grades", tab.course_grades)
        s3 == IF tab.course_grades # <<>>
              THEN Put(Put(s2, "marks", Mean(tab.course_grades)),
                       "grade", calculate_grade(Mean(tab.course_grades)))
              ELSE s2
        students == [tab.students EXCEPT ![k] = s3]
    IN  /\ pc = "page"
        /\ menu_option = "Grade Management"
        /\ sel \in 1..Len(ld.students)
        /\ tab.registered_courses # <<>>
        /\ Return("update_grades", "ok", <<student["roll_no"]>>, students,
                  save_students(students), ld.saves + 1, 0, 0)

\* variant: the sum is not clamped
ClampNone(x) == x

\* max(0.0, min(100.0, x))
Clamp(x) == IF x < Pts(0) THEN Pts(0) ELSE IF x > Pts(100) THEN Pts(100) ELSE x

\* variant: the adjustment changes marks and leaves the grade as it was
AdjustMarksKeepGrade(student, min_range, max_range, bulk_adjustment) ==
    LET new_marks == Clamp(student["marks"] + bulk_adjustment)
    IN  IF min_range <= student["marks"] /\ student["marks"] <= max_range
           /\ new_marks # student["marks"]
        THEN Put(student, "marks", new_marks)
        ELSE student

\* one student of the Apply Bulk Adjustment loop
AdjustMarks(student, min_range, max_range, bulk_adjustment) ==
    LET new_marks == Clamp(student["marks"] + bulk_adjustment)
    IN  IF min_range <= student["marks"] /\ student["marks"] <= max_range
           /\ new_marks # student["marks"]
        THEN Put(Put(student, "marks", new_marks), "grade", calculate_grade(new_marks))
        ELSE student

\* the Apply Bulk Adjustment button, pressed in a run that rendered the Update
\* Grades tab with student sel selected and the widget state widgets
BulkAdjust(range, bulk_adjustment, sel, widgets) ==
    LET ld == load_students(file)
        tab == UpdateGradesTab(ld.students, sel, widgets)
        students == [i \in 1..Len(tab.students) |->
                        AdjustMarks(tab.students[i], range[1], range[2], bulk_adjustment)]
        updated_count == Cardinality({i \in 1..Len(students) :
                                         students[i] # tab.students[i]})
    IN  /\ pc = "page"
        /\ menu_option = "Grade Management"
        /\ sel \in 1..Len(ld.students)
        /\ IF updated_count > 0
           THEN Return("bulk_adjust", "ok", <<bulk_adjustment>>, students,
                       save_students(students), ld.saves + 1, 0, 0)
           ELSE Return("bulk_adjust", "NoneInRange", <<bulk_adjustment>>, students,
                       ld.file, ld.saves, 0, 0)

\* one student of the Apply Course Adjustment loop
AdjustCourse(student, selected_course, course_adjustment) ==
    LET course_grades == Get(student, "course_grades", <<>>)
        new_course_marks == Clamp(course_grades[selected_course] + course_adjustment)
        adjusted == Put(course_grades, selected_course, new_course_marks)
    IN  IF selected_course \in DOMAIN course_grades
           /\ new_course_marks # course_grades[selected_course]
        THEN Put(Put(Put(student, "course_grades", adjusted),
                     "marks", Mean(adjusted)),
                 "grade", calculate_grade(Mean(adjusted)))
        ELSE student

\* the Apply Course Adjustment button
CourseAdjust(selected_course, course_adjustment, sel, widgets) ==
    LET ld == load_students(file)
        tab == UpdateGradesTab(ld.students, sel, widgets)
        students == [i \in 1..Len(tab.students) |->
                        AdjustCourse(tab.students[i], selected_course, course_adjustment)]
        updated_count == Cardinality({i \in 1..Len(students) :
                                         students[i] # tab.students[i]})
    IN  /\ pc = "page"
        /\ menu_option = "Grade Management"
        /\ sel \in 1..Len(ld.students)
        /\ IF updated_count > 0
           THEN Return("course_adjust", "ok", NoArgs, students,
                       save_students(students), ld.saves + 1, 0, 0)
           ELSE Return("course_adjust", "NoneWithCourse", NoArgs, students,
                       ld.file, ld.saves, 0, 0)

----------------------------------------------------------------------------
(* Attendance *)

mark_attendance(student, course_id, date, status, now) ==
    LET s1 == IF "attendance" \notin DOMAIN student
              THEN Put(student, "attendance", <<>>)
              ELSE student
        attendance == IF course_id \notin DOMAIN s1["attendance"]
                      THEN Put(s1["attendance"], course_id, <<>>)
                      ELSE s1["attendance"]
        records == attendance[course_id]
        found == {i \in 1..Len(records) : records[i]["date"] = date}
        existing_record == CHOOSE i \in found : \A j \in found : i <= j
    IN  IF found # {}
        THEN Put(s1, "attendance",
                 Put(attendance, course_id,
                     [records EXCEPT ![existing_record] =
                         Put(Put(@, "status", status), "time", now)]))
        ELSE Put(s1, "attendance",
                 Put(attendance, course_id,
                     Append(records, [date |-> date, status |-> status, time |-> now])))

\* s is one of registered_students for the course
Registered(s, course_id) ==
    \E n \in 1..Len(Get(s, "registered_courses", <<>>)) :
        Get(s, "registered_courses", <<>>)[n] = course_id

\* the Mark All Present and Mark All Absent buttons of attendance_tracking
MarkAll(course_id, date, status, now) ==
    LET ld == load_students(file)
        students == [i \in 1..Len(ld.students) |->
                        IF Registered(ld.students[i], course_id)
                        THEN mark_attendance(ld.students[i], course_id, date, status, now)
                        ELSE ld.students[i]]
    IN  /\ pc = "page"
        /\ menu_option = "Attendance Tracking"
        /\ \E i \in 1..Len(ld.students) : Registered(ld.students[i], course_id)
        /\ Return("mark_all", "ok", <<course_id, date, status>>, students,
                  ld.file, ld.saves, 0, 0)

\* the Submit Individual Attendance button, with the two check boxes
MarkIndividual(course_id, i, date, present, absent, now) ==
    LET ld == load_students(file)
        attendance_status == IF present /\ ~absent THEN "Present"
                             ELSE IF absent /\ ~present THEN "Absent"
                             ELSE "Not Marked"
        k == Selected(ld.students, i)
        students == [ld.students EXCEPT
                        ![k] = mark_attendance(@, course_id, date, attendance_status, now)]
    IN  /\ pc = "page"
        /\ menu_option = "Attendance Tracking"
        /\ i \in 1..Len(ld.students)
        /\ Registered(ld.students[i], course_id)
        /\ IF attendance_status # "Not Marked"
           THEN Return("mark_individual", "ok",
                       <<ld.students[k]["roll_no"], course_id, date, attendance_status>>,
                       students, ld.file, ld.saves, 0, 0)
           ELSE Return("mark_individual", "NotMarked", NoArgs,
                       ld.students, ld.file, ld.saves, 0, 0)

----------------------------------------------------------------------------
(* Course registration *)

\* sum(1 for s in students if course_id in s.get("registered_courses", []))
RegisteredCount(students, course_id) ==
    Cardinality({i \in 1..Len(students) : Registered(students[i], course_id)})

\* variant: a course is offered while its count does not exceed max_students
AvailableUpToLimit(students, student, course) ==
    /\ RegisteredCount(students, course["course_id"]) <= course["max_students"]
    /\ ~Registered(student, course["course_id"])

\* variant: a course the student is registered for is offered again
AvailableAgain(students, student, course) ==
    RegisteredCount(students, course["course_id"]) < course["max_students"]

\* the courses offered in the Select Course to Register box
Available(students, student, course) ==
    /\ RegisteredCount(students, course["course_id"]) < course["max_students"]
    /\ ~Registered(student, course["course_id"])

\* the Register for Course button, for the i-th label and the j-th course
RegisterCourse(i, j) ==
    LET ld == load_students(file)
        k == Selected(ld.students, i)
        student == ld.students[k]
        students == [ld.students EXCEPT
                        ![k] = Put(@, "registered_courses",
                                   Append(Get(@, "registered_courses", <<>>),
                                          Courses[j]["course_id"]))]
    IN  /\ pc = "page"
        /\ menu_option = "Course Registration"
        /\ i \in 1..Len(ld.students)
        /\ j \in 1..Len(Courses)
        /\ IF Available(ld.students, student, Courses[j])
           THEN Return("register_course", "ok",
                       <<student["roll_no"], Courses[j]["course_id"]>>, students,
                       save_students(students), ld.saves + 1, 0, 0)
           ELSE \* the course is not in the select box: nothing to press
                Return("register_course", "NotOffered",
                       <<student["roll_no"], Courses[j]["course_id"]>>, ld.students,
                       ld.file, ld.saves, 0, 0)

\* list.remove(x): drop the first x
RECURSIVE Remove(_, _)
Remove(list, x) ==
    IF list = <<>> THEN <<>>
    ELSE IF Head(list) = x THEN Tail(list)
    ELSE <<Head(list)>> \o Remove(Tail(list), x)

\* the Drop Course button, for the i-th label and a course of the catalogue the
\* student is registered for
DropCourse(i, course_to_drop) ==
    LET ld == load_students(file)
        k == Selected(ld.students, i)
        student == ld.students[k]
        students == [ld.students EXCEPT
                        ![k] = Put(@, "registered_courses",
                                   Remove(@["registered_courses"], course_to_drop))]
    IN  /\ pc = "page"
        /\ menu_option = "Course Registration"
        /\ i \in 1..Len(ld.students)
        /\ course_to_drop \in CourseIds
        /\ IF Registered(student, course_to_drop)
           THEN Return("drop_course", "ok", <<student["roll_no"], course_to_drop>>,
                       students, save_students(students), ld.saves + 1, 0, 0)
           ELSE \* the course is not in the select box: nothing to press
                Return("drop_course", "NotOffered",
                       <<student["roll_no"], course_to_drop>>, ld.students,
                       ld.file, ld.saves, 0, 0)

----------------------------------------------------------------------------
(* Batch assignment: assign_courses.py, run from the command line *)

\* how many times the lists of registered courses name the course
RECURSIVE Enrollments(_, _)
Enrollments(students, cid) ==
    IF students = <<>> THEN 0
    ELSE Cardinality({n \in 1..Len(Head(students)["registered_courses"]) :
                         Head(students)["registered_courses"][n] = cid})
         + Enrollments(Tail(students), cid)

\* random.sample(available, k): the lists of k different courses of available
Sample(available, k) ==
    {s \in [1..k -> available] : \A a, b \in 1..k : a # b => s[a] # s[b]}

\* the assignment loop from student k on, with the enrollment counts kept so
\* far: every list of students it can end with
RECURSIVE AssignFrom(_, _, _)
AssignFrom(students, k, current_enrollments) ==
    IF k > Len(students) THEN {students}
    ELSE LET current == students[k]["registered_courses"]
             available == {cid \in CourseIds :
                              /\ \A n \in 1..Len(current) : current[n] # cid
                              /\ current_enrollments[cid] <
                                    (CHOOSE c \in {Courses[j] : j \in 1..Len(Courses)} :
                                        c["course_id"] = cid)["max_students"]}
             wanted == 2 - Len(current)
             num_to_add == IF wanted < Cardinality(available)
                           THEN wanted ELSE Cardinality(available)
         IN  IF num_to_add > 0
             THEN UNION {AssignFrom(
                            [students EXCEPT ![k] =
                                Put(@, "registered_courses", current \o new_courses)],
                            k + 1,
                            [cid \in CourseIds |->
                                current_enrollments[cid]
                                + IF \E n \in 1..num_to_add : new_courses[n] = cid
                                  THEN 1 ELSE 0])
                         : new_courses \in Sample(available, num_to_add)}
             ELSE AssignFrom(students, k + 1, current_enrollments)

\* one run of assign_courses.py between two script runs of the application
AssignCourses ==
    /\ pc = "idle"
    /\ on_disk = "records"
    /\ IF \E i \in 1..Len(file) : "registered_courses" \notin DOMAIN file[i]
       THEN \* s['registered_courses'] raises KeyError before anything is written
            Return("assign_courses", "KeyError", NoArgs, mem, file, 0, 0, 0)
       ELSE \E students \in AssignFrom(file, 1,
                               [cid \in CourseIds |-> Enrollments(file, cid)]) :
               Return("assign_courses", "ok", NoArgs, students, students, 1, 0, 0)

----------------------------------------------------------------------------
(* Reset All Data: the sidebar of main() and reset_all_data *)

\* variant: the Reset All Data button empties the store at once
ResetButtonAtOnce ==
    /\ pc = "idle"
    /\ require_auth
    /\ ~show_reset_modal
    /\ file' = save_students(<<>>)
    /\ show_reset_modal' = FALSE
    /\ last' = [op |-> "reset_button", outcome |-> "ok", args |-> NoArgs,
                added |-> 0, skipped |-> 0, saves |-> 1]
    /\ UNCHANGED <<mem, pc, on_disk, teachers, authenticated, teacher_data,
                   menu_option, writers>>

\* the Reset All Data button, shown while the modal is not: the script reruns
\* before the sidebar loads the students
ResetButton ==
    /\ pc = "idle"
    /\ require_auth
    /\ ~show_reset_modal
    /\ show_reset_modal' = TRUE
    /\ last' = [op |-> "reset_button", outcome |-> "ok", args |-> NoArgs,
                added |-> 0, skipped |-> 0, saves |-> 0]
    /\ UNCHANGED <<file, mem, pc, on_disk, teachers, authenticated, teacher_data,
                   menu_option, writers>>

\* reset_all_data with one of its two buttons pressed
ResetAllData(button) ==
    /\ pc = "idle"
    /\ require_auth
    /\ show_reset_modal
    /\ show_reset_modal' = FALSE
    /\ IF button = "confirm_reset_yes"
       THEN /\ file' = save_students(<<>>)
            /\ on_disk' = "records"
            /\ last' = [op |-> "reset_all_data", outcome |-> "ok", args |-> NoArgs,
                        added |-> 0, skipped |-> 0, saves |-> 1]
       ELSE /\ button = "confirm_reset_no"
            /\ last' = [op |-> "reset_all_data", outcome |-> "cancelled",
                        args |-> NoArgs, added |-> 0, skipped |-> 0, saves |-> 0]
            /\ UNCHANGED <<file, on_disk>>
    /\ UNCHANGED <<mem, pc, teachers, authenticated, teacher_data, menu_option, writers>>

----------------------------------------------------------------------------
(* Credential store: auth.py *)

\* what the register form and the caller of register_teacher may pass
EmailInputs == {<<"a">>, <<" ", "a">>, <<"b">>, <<" ">>}
PasswordInputs ==
    {<<>>, <<"p", "a", "s", "s", "w">>, <<"p", "a", "s", "s", "w", "d">>,
     <<"p", "a", "s", "s", "w", "d", "1">>, <<" ", " ", " ", " ", " ", " ">>}
TeacherNames == {<<"T">>, <<" ">>}

\* secrets.token_hex(SALT_LENGTH): some salt
Salts == {<<"x">>, <<"y">>}

\* hashlib.sha256((password + salt).encode()).hexdigest(): the digest is kept as
\* the text it was computed from, so that different texts have different digests
sha256(text) == <<"sha256", text>>

\* variant: the digest is taken of the password alone
hash_password_unsalted(password, salt) ==
    [hashed |-> sha256(password), salt |-> salt]

\* hash_password(password, salt), the salt given or drawn by the caller
hash_password(password, salt) ==
    [hashed |-> sha256(password \o salt), salt |-> salt]

\* the list load_teachers() returns and save_teachers writes
load_teachers(f) == f
save_teachers(list) == list

\* any(t['email'] == email for t in teachers)
EmailRegistered(list, email) ==
    \E i \in 1..Len(list) : list[i]["email"] = email

\* variant: the length of the password is not checked
InvalidRegistrationAnyLength(email, password, name) ==
    Strip(email) = <<>> \/ Strip(password) = <<>> \/ Strip(name) = <<>>

\* the input checks of register_teacher
InvalidRegistration(email, password, name) ==
    \/ Strip(email) = <<>> \/ Strip(password) = <<>> \/ Strip(name) = <<>>
    \/ Len(password) < 6

\* register_teacher(email, password, name) with the salt and the time it draws
RegisterTeacher(email, password, name, salt, now) ==
    LET list == load_teachers(teachers)
        h == hash_password(password, salt)
        teacher == [email |-> Strip(email), password_hash |-> h.hashed,
                    salt |-> h.salt, name |-> Strip(name), created_at |-> now]
        outcome == IF EmailRegistered(list, email) THEN "DuplicateKey"
                   ELSE IF InvalidRegistration(email, password, name)
                        THEN "ValidationError"
                        ELSE "ok"
    IN  /\ pc = "idle"
        /\ IF outcome = "ok"
           THEN /\ Len(list) < MaxTeachers
                /\ teachers' = save_teachers(Append(list, teacher))
           ELSE UNCHANGED teachers
        /\ last' = [op |-> "register_teacher", outcome |-> outcome,
                    args |-> <<email, password, name>>,
                    added |-> 0, skipped |-> 0, saves |-> 0]
        /\ UNCHANGED <<file, mem, pc, on_disk, show_reset_modal, authenticated,
                       teacher_data, menu_option, writers>>

\* verify_password(password, hashed, salt)
verify_password(password, hashed, salt) ==
    hash_password(password, salt).hashed = hashed

\* next((t for t in teachers if t['email'] == email), None)
FirstTeacher(list, email) ==
    IF EmailRegistered(list, email)
    THEN list[CHOOSE i \in 1..Len(list) :
                 /\ list[i]["email"] = email
                 /\ \A j \in 1..(i - 1) : list[j]["email"] # email]
    ELSE None

\* variant: the whole stored record is returned
TeacherViewWhole(teacher) == teacher

\* the teacher_data login_teacher returns on success
TeacherView(teacher) ==
    [email |-> teacher["email"], name |-> teacher["name"],
     created_at |-> teacher["created_at"]]

\* login_teacher(email, password): its result (success, message, teacher_data),
\* the message by its kind
login_teacher(list, email, password) ==
    LET teacher == FirstTeacher(list, email)
    IN  IF teacher = None
        THEN [success |-> FALSE, message |-> "NotFound", teacher_data |-> None]
        ELSE IF ~verify_password(password, teacher["password_hash"], teacher["salt"])
             THEN [success |-> FALSE, message |-> "InvalidCredentials",
                   teacher_data |-> None]
             ELSE [success |-> TRUE, message |-> "ok",
                   teacher_data |-> TeacherView(teacher)]

\* a call of login_teacher(email, password)
LoginTeacher(email, password) ==
    LET r == login_teacher(load_teachers(teachers), email, password)
    IN  /\ pc = "idle"
        /\ last' = [op |-> "login_teacher", outcome |-> r.message,
                    args |-> <<email, password, r.teacher_data>>,
                    added |-> 0, skipped |-> 0, saves |-> 0]
        /\ UNCHANGED <<file, mem, pc, on_disk, show_reset_modal, teachers,
                       authenticated, teacher_data, menu_option, writers>>

\* show_login_form with the Login button pressed: shown by require_auth() to a
\* session that is not authenticated
ShowLoginForm(email, password) ==
    LET r == login_teacher(load_teachers(teachers), email, password)
    IN  /\ pc = "idle"
        /\ ~require_auth
        /\ IF email = <<>> \/ password = <<>>
           THEN /\ last' = [op |-> "show_login_form", outcome |-> "ValidationError",
                            args |-> <<email, password>>,
                            added |-> 0, skipped |-> 0, saves |-> 0]
                /\ UNCHANGED <<authenticated, teacher_data>>
           ELSE /\ last' = [op |-> "show_login_form", outcome |-> r.message,
                            args |-> <<email, password>>,
                            added |-> 0, skipped |-> 0, saves |-> 0]
                /\ IF r.success
                   THEN /\ authenticated' = TRUE
                        /\ teacher_data' = r.teacher_data
                   ELSE UNCHANGED <<authenticated, teacher_data>>
        /\ UNCHANGED <<file, mem, pc, on_disk, show_reset_modal, teachers,
                       menu_option, writers>>

\* logout(): auth.py defines it and app.py imports it; no page calls it
Logout ==
    /\ pc = "idle"
    /\ authenticated' = FALSE
    /\ teacher_data' = None
    /\ last' = [op |-> "logout", outcome |-> "ok", args |-> NoArgs,
                added |-> 0, skipped |-> 0, saves |-> 0]
    /\ UNCHANGED <<file, mem, pc, on_disk, show_reset_modal, teachers, menu_option,
                   writers>>

----------------------------------------------------------------------------
(* Concurrent writers of students.json: a session of the application that runs *)
(* add_student, and a run of assign_courses.py.  Neither takes a lock.  Each    *)
(* loads the file, changes its list in memory, opens the file for writing,     *)
(* which empties it, and dumps the list.                                        *)

WriterIds == {"add_student", "assign_courses"}

\* a writer: pc is "start", "loaded" (the list to save is in memory), "writing"
\* (the file is open for writing), "done" (saved), "returned" (ended without a
\* save) or "failed" (ended by an exception)
Writer(position, loaded, students) ==
    [pc |-> position, loaded |-> loaded, students |-> students]

\* what load_students() returns to the session: the records, or [] when
\* json.load raises JSONDecodeError on an empty or broken file
ReadStudents ==
    IF on_disk = "records" THEN load_students(file).students ELSE <<>>

Step(op, outcome, w) ==
    [op |-> op, outcome |-> outcome, args |-> <<w>>,
     added |-> 0, skipped |-> 0, saves |-> 0]

\* add_student(name, roll_no, marks) up to its save_students
WriterRolls == {<<"s", "1">>, <<"s", "2">>}

AddStudentLoad(name, roll_no, marks) ==
    LET w == "add_student"
        students == ReadStudents
    IN  /\ writers[w].pc = "start"
        /\ IF Invalid(name, roll_no, marks) \/ IsDuplicate(students, roll_no)
           THEN /\ writers' = [writers EXCEPT ![w] = Writer("returned", students, students)]
                /\ last' = Step("writer_load", "refused", w)
           ELSE /\ Len(students) < MaxStudents
                /\ writers' = [writers EXCEPT ![w] =
                                  Writer("loaded", students,
                                         Append(students, NewStudent(name, roll_no, marks)))]
                /\ last' = Step("writer_load", "ok", w)
        /\ UNCHANGED <<file, mem, pc, on_disk, show_reset_modal, teachers,
                       authenticated, teacher_data, menu_option>>

\* assign_courses.py up to its open(.., 'w'): json.load and the assignment loop
AssignCoursesLoad ==
    LET w == "assign_courses"
    IN  /\ writers[w].pc = "start"
        /\ IF \/ on_disk # "records"
              \/ \E i \in 1..Len(file) : "registered_courses" \notin DOMAIN file[i]
           THEN \* JSONDecodeError, or KeyError in the loop: the script ends
                /\ writers' = [writers EXCEPT ![w] = Writer("failed", <<>>, <<>>)]
                /\ last' = Step("writer_load", "failed", w)
           ELSE \E students \in AssignFrom(file, 1,
                                   [cid \in CourseIds |-> Enrollments(file, cid)]) :
                   /\ writers' = [writers EXCEPT ![w] = Writer("loaded", file, students)]
                   /\ last' = Step("writer_load", "ok", w)
        /\ UNCHANGED <<file, mem, pc, on_disk, show_reset_modal, teachers,
                       authenticated, teacher_data, menu_option>>

\* the records of a list, and the records a writer added or changed
Records(list) == {list[i] : i \in 1..Len(list)}
Changed(w) == Records(writers[w].students) \ Records(writers[w].loaded)

\* open(DATA_FILE, "w"): the file is emptied
WriterOpen(w) ==
    /\ writers[w].pc = "loaded"
    /\ file' = <<>>
    /\ on_disk' = "truncated"
    /\ writers' = [writers EXCEPT ![w].pc = "writing"]
    /\ last' = Step("writer_open", "ok", w)
    /\ UNCHANGED <<mem, pc, show_reset_modal, teachers, authenticated, teacher_data,
                   menu_option>>

\* variant: the dump keeps what the writers that are done added or changed
DumpedMerged(w) ==
    LET others == UNION {Changed(v) : v \in {u \in WriterIds : writers[u].pc = "done"}}
        kept == {r \in others : r \notin Records(writers[w].students)}
        RECURSIVE AsList(_)
        AsList(S) == IF S = {} THEN <<>>
                     ELSE LET r == CHOOSE x \in S : TRUE
                          IN  <<r>> \o AsList(S \ {r})
    IN  writers[w].students \o AsList(kept)

\* what json.dump(students, f) writes: the list of the writer
Dumped(w) == save_students(writers[w].students)

\* json.dump(students, f) and the close of the file.  Into the empty file the
\* text of the list is written.  When another writer has written since this one
\* opened the file, this text replaces the start of the other: the file holds
\* this list, or, the other text being longer, text that is not JSON.
WriterDump(w, overlap) ==
    /\ writers[w].pc = "writing"
    /\ overlap \in (IF on_disk = "truncated" THEN {"records"}
                    ELSE {"records", "invalid_json"})
    /\ on_disk' = overlap
    /\ file' = IF overlap = "records" THEN Dumped(w) ELSE <<>>
    /\ writers' = [writers EXCEPT ![w].pc = "done"]
    /\ last' = Step("writer_dump", "ok", w)
    /\ UNCHANGED <<mem, pc, show_reset_modal, teachers, authenticated, teacher_data,
                   menu_option>>

----------------------------------------------------------------------------
(* Specifications *)

\* no writer runs next to the session
NoWriters == <<>>

\* init_auth_session_state: a session nobody has logged in to
LoggedOut ==
    /\ authenticated = FALSE
    /\ teacher_data = None
    /\ menu_option = NoOption

\* a teacher who registered as register_teacher stores it
Teacher1 ==
    [email |-> <<"a">>,
     password_hash |-> hash_password(<<"p", "a", "s", "s", "w", "d">>, <<"x">>).hashed,
     salt |-> <<"x">>, name |-> <<"T">>, created_at |-> "10:30:00"]

\* the session after Teacher1 logged in
LoggedIn ==
    /\ teachers = <<Teacher1>>
    /\ authenticated = TRUE
    /\ teacher_data = [email |-> Teacher1.email, name |-> Teacher1.name,
                       created_at |-> Teacher1.created_at]
    /\ menu_option = NoOption

Init ==
    /\ file \in InitFiles
    /\ mem = <<>>
    /\ pc = "idle"
    /\ last = [op |-> "none", outcome |-> "none", args |-> NoArgs,
               added |-> 0, skipped |-> 0, saves |-> 0]
    /\ on_disk = "records"
    /\ show_reset_modal = FALSE
    /\ LoggedIn
    /\ writers = NoWriters

Next ==
    \/ MainSidebar
    \/ ViewStudents
    \/ \E name \in NameInputs, roll_no \in RollInputs, marks \in MarksInputs :
          AddStudent(name, roll_no, marks)
    \/ \E uploaded_file \in UploadInputs : UploadFile(uploaded_file)
    \/ UpdateMarksPage
    \/ \E i \in 1..MaxStudents, new_marks \in WidgetMarks : UpdateMarks(i, new_marks)
    \/ \E i \in 1..MaxStudents, confirm \in BOOLEAN : DeleteStudent(i, confirm)

Spec == Init /\ [][Next]_vars

\* the roster pages together with the reset of the sidebar
NextReset ==
    \/ MainSidebar
    \/ ViewStudents
    \/ \E name \in NameInputs, roll_no \in RollInputs, marks \in MarksInputs :
          AddStudent(name, roll_no, marks)
    \/ \E i \in 1..MaxStudents, confirm \in BOOLEAN : DeleteStudent(i, confirm)
    \/ ResetButton
    \/ \E button \in {"confirm_reset_yes", "confirm_reset_no"} : ResetAllData(button)

SpecReset == Init /\ [][NextReset]_vars

\* the application on a store that holds course data
InitGrades ==
    /\ file \in InitFilesGrades
    /\ mem = <<>>
    /\ pc = "idle"
    /\ last = [op |-> "none", outcome |-> "none", args |-> NoArgs,
               added |-> 0, skipped |-> 0, saves |-> 0]
    /\ on_disk = "records"
    /\ show_reset_modal = FALSE
    /\ LoggedIn
    /\ writers = NoWriters

NextGrades ==
    \/ MainSidebar
    \/ ViewStudents
    \/ \E name \in NameInputs, roll_no \in GradesRollInputs, marks \in GradesAddMarks :
          AddStudent(name, roll_no, marks)
    \/ \E uploaded_file \in GradesUploads : UploadFile(uploaded_file)
    \/ UpdateMarksPage
    \/ \E i \in 1..MaxStudents, new_marks \in GradesMarks : UpdateMarks(i, new_marks)
    \/ \E sel \in 1..MaxStudents, overall \in GradesOverallEdits,
          widgets \in CourseEdits :
          UpdateGrades(sel, overall, widgets)
    \/ \E range \in RangeInputs, adj \in AdjustInputs,
          sel \in 1..MaxStudents, widgets \in CourseEdits :
          BulkAdjust(range, adj, sel, widgets)
    \/ \E c \in CourseIds, adj \in AdjustInputs,
          sel \in 1..MaxStudents, widgets \in CourseEdits :
          CourseAdjust(c, adj, sel, widgets)

SpecGrades == InitGrades /\ [][NextGrades]_vars

\* the Grade Management page on a store of two students with course grades
InitCourseGrades ==
    /\ file = <<StudentA, StudentC>>
    /\ mem = <<>>
    /\ pc = "idle"
    /\ last = [op |-> "none", outcome |-> "none", args |-> NoArgs,
               added |-> 0, skipped |-> 0, saves |-> 0]
    /\ on_disk = "records"
    /\ show_reset_modal = FALSE
    /\ LoggedIn
    /\ writers = NoWriters

NextCourseGrades ==
    \/ MainSidebar
    \/ ViewStudents
    \/ \E sel \in 1..MaxStudents, overall \in GradesOverallEdits,
          widgets \in CourseEdits :
          UpdateGrades(sel, overall, widgets)
    \/ \E c \in CourseIds, adj \in AdjustInputs,
          sel \in 1..MaxStudents, widgets \in CourseEdits :
          CourseAdjust(c, adj, sel, widgets)

SpecCourseGrades == InitCourseGrades /\ [][NextCourseGrades]_vars

\* load_students alone, on every kind of students.json
InitLoad ==
    /\ on_disk \in {"absent", "invalid_json", "empty_object", "records"} \cup NotRecords
    /\ IF on_disk = "records" THEN file \in LegacyFiles ELSE file = <<>>
    /\ mem = <<>>
    /\ pc = "idle"
    /\ last = [op |-> "none", outcome |-> "none", args |-> NoArgs,
               added |-> 0, skipped |-> 0, saves |-> 0]
    /\ show_reset_modal = FALSE
    /\ teachers = <<>>
    /\ LoggedOut
    /\ writers = NoWriters

SpecLoad == InitLoad /\ [][LoadStudents]_vars

\* the credential store
NextAuth ==
    \/ \E email \in EmailInputs, password \in PasswordInputs, name \in TeacherNames,
          salt \in Salts, now \in Times :
          RegisterTeacher(email, password, name, salt, now)
    \/ \E email \in EmailInputs, password \in PasswordInputs :
          LoginTeacher(email, password)

InitAuth ==
    /\ file = <<>>
    /\ mem = <<>>
    /\ pc = "idle"
    /\ last = [op |-> "none", outcome |-> "none", args |-> NoArgs,
               added |-> 0, skipped |-> 0, saves |-> 0]
    /\ on_disk = "records"
    /\ show_reset_modal = FALSE
    /\ teachers = <<>>
    /\ LoggedOut
    /\ writers = NoWriters

SpecAuth == InitAuth /\ [][NextAuth]_vars

\* the grade policy alone, on every marks value of GradeDomain
GradeDomain == (Pts(0) - GradeMargin)..(Pts(100) + GradeMargin)

InitPolicy ==
    /\ file = <<>>
    /\ mem = <<>>
    /\ pc = "policy"
    /\ \E marks \in GradeDomain :
          last = [op |-> "none", outcome |-> "none", args |-> <<marks>>,
                  added |-> 0, skipped |-> 0, saves |-> 0]
    /\ on_disk = "records"
    /\ show_reset_modal = FALSE
    /\ teachers = <<>>
    /\ LoggedOut
    /\ writers = NoWriters

\* both calculate_grade functions applied to the marks drawn
CalculateGrade ==
    /\ pc = "policy"
    /\ last.op = "none"
    /\ last' = [last EXCEPT
                  !.op = "calculate_grade",
                  !.outcome = calculate_grade(last.args[1]),
                  !.args = <<last.args[1], generate_calculate_grade(last.args[1])>>]
    /\ UNCHANGED <<file, mem, pc, on_disk, show_reset_modal, teachers,
                   authenticated, teacher_data, menu_option, writers>>

SpecPolicy == InitPolicy /\ [][CalculateGrade]_vars

\* course registration and attendance on the same store
NextCourses ==
    \/ MainSidebar
    \/ ViewStudents
    \/ \E i \in 1..MaxStudents, j \in 1..Len(Courses) : RegisterCourse(i, j)
    \/ \E i \in 1..MaxStudents, c \in CourseIds : DropCourse(i, c)
    \/ AssignCourses
    \/ \E c \in CourseIds, date \in Dates, status \in {"Present", "Absent"},
          now \in Times :
          MarkAll(c, date, status, now)
    \/ \E c \in CourseIds, i \in 1..MaxStudents, date \in Dates,
          present \in BOOLEAN, absent \in BOOLEAN, now \in Times :
          MarkIndividual(c, i, date, present, absent, now)

InitCourses ==
    /\ file \in InitFilesCourses
    /\ mem = <<>>
    /\ pc = "idle"
    /\ last = [op |-> "none", outcome |-> "none", args |-> NoArgs,
               added |-> 0, skipped |-> 0, saves |-> 0]
    /\ on_disk = "records"
    /\ show_reset_modal = FALSE
    /\ LoggedIn
    /\ writers = NoWriters

SpecCourses == InitCourses /\ [][NextCourses]_vars

\* course registration together with the course grades of the Grade Management
\* page
NextEnrolment ==
    \/ MainSidebar
    \/ ViewStudents
    \/ \E i \in 1..MaxStudents, j \in 1..Len(Courses) : RegisterCourse(i, j)
    \/ \E i \in 1..MaxStudents, c \in CourseIds : DropCourse(i, c)
    \/ \E sel \in 1..MaxStudents, overall \in GradesOverallEdits,
          widgets \in CourseEdits :
          UpdateGrades(sel, overall, widgets)
    \/ \E c \in CourseIds, adj \in AdjustInputs,
          sel \in 1..MaxStudents, widgets \in CourseEdits :
          CourseAdjust(c, adj, sel, widgets)

SpecEnrolment == InitGrades /\ [][NextEnrolment]_vars

\* a browser session from the login page on: the forms of auth.py, the pages
\* that write students.json and the reset of the sidebar
LoginEmails == {<<>>, <<"a">>, <<"b">>}
LoginPasswords == {<<>>, <<"p", "a", "s", "s", "w", "d">>, <<"p", "a", "s", "s", "w">>}
SessionMarks == {Pts(100)}
SessionUploads ==
    {[ext |-> "csv", columns |-> RequiredColumns,
      rows |-> << [name |-> <<"B">>, roll_no |-> <<"s", "2">>,
                   marks |-> [num |-> Pts(50)]] >>]}
SessionEdits == {w \in CourseEdits : DOMAIN w \subseteq {CourseKey("C1")}}

InitSession ==
    /\ file = <<StudentB>>
    /\ mem = <<>>
    /\ pc = "idle"
    /\ last = [op |-> "none", outcome |-> "none", args |-> NoArgs,
               added |-> 0, skipped |-> 0, saves |-> 0]
    /\ on_disk = "records"
    /\ show_reset_modal = FALSE
    /\ teachers = <<Teacher1>>
    /\ LoggedOut
    /\ writers = NoWriters

NextSession ==
    \/ \E email \in LoginEmails, password \in LoginPasswords :
          ShowLoginForm(email, password)
    \/ Logout
    \/ MainSidebar
    \/ ViewStudents
    \/ \E marks \in SessionMarks : AddStudent(<<"A">>, <<"s", "2">>, marks)
    \/ \E uploaded_file \in SessionUploads : UploadFile(uploaded_file)
    \/ UpdateMarksPage
    \/ \E i \in 1..MaxStudents, new_marks \in SessionMarks : UpdateMarks(i, new_marks)
    \/ \E i \in 1..MaxStudents, confirm \in BOOLEAN : DeleteStudent(i, confirm)
    \/ \E i \in 1..MaxStudents, j \in 1..Len(Courses) : RegisterCourse(i, j)
    \/ \E i \in 1..MaxStudents, c \in CourseIds : DropCourse(i, c)
    \/ \E sel \in 1..MaxStudents, widgets \in SessionEdits :
          UpdateGrades(sel, <<>>, widgets)
    \/ ResetButton
    \/ \E button \in {"confirm_reset_yes", "confirm_reset_no"} : ResetAllData(button)

SpecSession == InitSession /\ [][NextSession]_vars

\* the navigation of a session: the sidebar, the quick actions, and the roster
\* pages the sidebar leads to
NextNavigation ==
    \/ \E email \in LoginEmails, password \in LoginPasswords :
          ShowLoginForm(email, password)
    \/ MainSidebar
    \/ ViewStudents
    \/ \E button \in QuickActions : QuickAction(button)
    \/ \E roll_no \in GradesRollInputs, marks \in SessionMarks :
          AddStudent(<<"A">>, roll_no, marks)
    \/ \E i \in 1..MaxStudents, confirm \in BOOLEAN : DeleteStudent(i, confirm)

SpecNavigation == InitSession /\ [][NextNavigation]_vars

\* the two writers next to each other, on a store the script has courses to
\* assign in
InitWriters ==
    /\ file \in {<<StudentB>>, <<StudentC>>}
    /\ mem = <<>>
    /\ pc = "idle"
    /\ last = [op |-> "none", outcome |-> "none", args |-> NoArgs,
               added |-> 0, skipped |-> 0, saves |-> 0]
    /\ on_disk = "records"
    /\ show_reset_modal = FALSE
    /\ teachers = <<Teacher1>>
    /\ authenticated = TRUE
    /\ teacher_data = TeacherView(Teacher1)
    /\ menu_option = NoOption
    /\ writers = [w \in WriterIds |-> Writer("start", <<>>, <<>>)]

NextWriters ==
    \/ \E roll_no \in WriterRolls, marks \in GradesAddMarks :
          AddStudentLoad(<<"A">>, roll_no, marks)
    \/ AssignCoursesLoad
    \/ \E w \in WriterIds : WriterOpen(w)
    \/ \E w \in WriterIds, overlap \in {"records", "invalid_json"} :
          WriterDump(w, overlap)

SpecWriters == InitWriters /\ [][NextWriters]_vars

----------------------------------------------------------------------------
(* Properties *)

\* the records of f with this roll number
WithRoll(f, roll_no) == {i \in 1..Len(f) : f[i]["roll_no"] = roll_no}

\* C1: no two records of students.json have the same roll_no.
C1_UniqueRollNo ==
    \A i, j \in 1..Len(file) : i # j => file[i]["roll_no"] # file[j]["roll_no"]

\* C2: every record of students.json has the grade that the grade policy gives
\* for its marks, whatever mutation wrote the marks.
C2_GradeMatchesMarks ==
    \A i \in 1..Len(file) :
        /\ "grade" \in DOMAIN file[i]
        /\ file[i]["grade"] = calculate_grade(file[i]["marks"])

\* Update Grades has set a student's marks to the mean 75 of two course grades
C2_Witness ==
    /\ last.op = "update_grades"
    /\ \E i \in 1..Len(file) :
          /\ file[i]["marks"] = Pts(75) /\ file[i]["grade"] = "C"
          /\ "course_grades" \in DOMAIN file[i]
          /\ DOMAIN file[i]["course_grades"] = {"C1", "C2"}

\* C3: calculate_grade gives A from 90, B from 80, C from 70, D from 60 and F below,
\* for every marks value of the domain, in app.py and in generate_students.py.
C3_GradeThresholds ==
    last.op = "calculate_grade" =>
        LET marks == last.args[1]
            grade == last.outcome
        IN  /\ grade \in {"A", "B", "C", "D", "F"}
            /\ (grade = "A") = (marks >= Pts(90))
            /\ (grade = "B") = (marks >= Pts(80) /\ marks < Pts(90))
            /\ (grade = "C") = (marks >= Pts(70) /\ marks < Pts(80))
            /\ (grade = "D") = (marks >= Pts(60) /\ marks < Pts(70))
            /\ (grade = "F") = (marks < Pts(60))
            /\ last.args[2] = grade

\* the policy was applied to 90 exactly
C3_Witness ==
    /\ last.op = "calculate_grade"
    /\ last.args[1] = Pts(90)
    /\ last.outcome = "A"

\* C4: an upload of two valid rows with one roll_no that the store does not hold
\* adds one record, the first row's, and reports one skipped row.
C4_BatchDuplicateSkipped ==
    [][last'.op = "upload_file" =>
        \A a, b \in ValidRows :
            ( /\ UploadFile([ext |-> "csv", columns |-> RequiredColumns,
                             rows |-> <<a, b>>])
              /\ Strip(a["roll_no"]) = Strip(b["roll_no"])
              /\ WithRoll(file, Strip(a["roll_no"])) = {} )
            => /\ Len(file') = Len(file) + 1
               /\ file'[Len(file')]["name"] = Strip(a["name"])
               /\ last'.skipped = 1]_vars

\* the attendance entries of student roll_no for the course on the date, as the
\* next load_students() returns them
LoadedEntries(roll_no, course_id, date) ==
    LET students == load_students(file).students
    IN  {<<i, n>> \in (1..Len(students)) \X (1..(Cardinality(Dates) + 1)) :
            /\ students[i]["roll_no"] = roll_no
            /\ "attendance" \in DOMAIN students[i]
            /\ course_id \in DOMAIN students[i]["attendance"]
            /\ n <= Len(students[i]["attendance"][course_id])
            /\ students[i]["attendance"][course_id][n]["date"] = date}

\* C5: after attendance was marked for a registered student, the next load of
\* the store has the entry for the course and date with the status marked.
C5_AttendancePersisted ==
    (last.op = "mark_individual" /\ last.outcome = "ok") =>
        \E e \in LoadedEntries(last.args[1], last.args[2], last.args[3]) :
            load_students(file).students[e[1]]["attendance"][last.args[2]][e[2]]["status"]
                = last.args[4]

\* C6: the store holds at most one attendance entry per student, course and date,
\* and after attendance was marked it holds exactly one for that date, with the
\* status marked last.
C6_AttendanceUpsert ==
    /\ \A i \in 1..Len(file), c \in CourseIds, d \in Dates :
           Cardinality({e \in LoadedEntries(file[i]["roll_no"], c, d) : e[1] = i}) <= 1
    /\ (last.op = "mark_individual" /\ last.outcome = "ok") =>
           /\ Cardinality(LoadedEntries(last.args[1], last.args[2], last.args[3])) = 1
           /\ C5_AttendancePersisted

\* the list a handler holds in memory after marking has the entry marked, once
MemoryUpsert ==
    (last.op = "mark_individual" /\ last.outcome = "ok") =>
        \E i \in 1..Len(mem) :
            /\ mem[i]["roll_no"] = last.args[1]
            /\ LET records == mem[i]["attendance"][last.args[2]]
                   found == {n \in 1..Len(records) : records[n]["date"] = last.args[3]}
               IN  /\ Cardinality(found) = 1
                   /\ \A n \in found : records[n]["status"] = last.args[4]

\* the inputs of add_student that pass its validation
ValidInput(name, roll_no, marks) ==
    /\ Strip(name) # <<>>
    /\ Strip(roll_no) # <<>>
    /\ marks >= Pts(0) /\ marks <= Pts(100)

C8_AddAppendsRecord ==
    [][(last'.op = "add_student" /\ last'.outcome = "ok") =>
        \A name \in NameInputs, roll_no \in RollInputs, marks \in MarksInputs :
            AddStudent(name, roll_no, marks)
            => /\ Len(file') = Len(file) + 1
               /\ SubSeq(file', 1, Len(file)) = file
               /\ load_students(file').students =
                      Append(file,
                             [name |-> Strip(name), roll_no |-> Strip(roll_no),
                              marks |-> marks, grade |-> calculate_grade(marks),
                              registered_courses |-> <<>>])]_vars

\* a student with marks 100 was added to a store that held a record
C8_Witness ==
    /\ last.op = "add_student"
    /\ last.outcome = "ok"
    /\ Len(file) = 2
    /\ file[2]["marks"] = Pts(100) /\ file[2]["grade"] = "A"

\* C9: add_student with a blank name, a blank roll_no or marks outside [0, 100]
\* reports a validation error, writes nothing and leaves students.json as it
\* was; valid input is not reported as a validation error.
C9_ValidationRejected ==
    [][last'.op = "add_student" =>
        \A name \in NameInputs, roll_no \in RollInputs, marks \in MarksInputs :
            AddStudent(name, roll_no, marks)
            => IF ValidInput(name, roll_no, marks)
               THEN last'.outcome # "ValidationError"
               ELSE /\ last'.outcome = "ValidationError"
                    /\ file' = file
                    /\ last'.saves = 0]_vars

\* input was rejected while the store held a record
C9_Witness ==
    /\ last.op = "add_student"
    /\ last.outcome = "ValidationError"
    /\ file # <<>>

\* a row that upload_file keeps: all cells present, numeric marks in [0, 100]
RowOk(row) ==
    /\ RequiredColumns \subseteq DOMAIN row
    /\ "num" \in DOMAIN row["marks"]
    /\ row["marks"]["num"] >= Pts(0) /\ row["marks"]["num"] <= Pts(100)

\* C10: upload_file that added rows saved once, and the file is the old file
\* followed by the added records; upload_file that added none wrote nothing and
\* left the file as it was.  Rows are added when some kept row has a roll_no
\* that the store did not hold.
C10_UploadSingleSave ==
    [][last'.op = "upload_file" =>
        /\ IF last'.added > 0
           THEN /\ last'.saves = 1
                /\ Len(file') = Len(file) + last'.added
                /\ SubSeq(file', 1, Len(file)) = file
           ELSE /\ last'.saves = 0
                /\ file' = file
        /\ \A u \in UploadInputs :
              UploadFile(u) =>
                 (last'.added > 0) =
                    ( /\ u.ext \in {"csv", "xlsx"}
                      /\ RequiredColumns \subseteq u.columns
                      /\ \E n \in 1..Len(u.rows) :
                            /\ RowOk(u.rows[n])
                            /\ WithRoll(file, Strip(u.rows[n]["roll_no"])) = {} )]_vars

\* an upload added two records in one save
C10_Witness ==
    /\ last.op = "upload_file"
    /\ last.added = 2
    /\ last.saves = 1
    /\ Len(file) = 2

\* an upload of rows that were all duplicates or invalid added nothing
C10_WitnessNoneAdded ==
    /\ last.op = "upload_file"
    /\ last.outcome = "NoneAdded"
    /\ last.skipped > 0

\* C11: update_student_marks with marks equal to the student's current marks
\* writes nothing; otherwise the next load shows the student's record (the first
\* one with the roll_no) with the new marks and their grade, and every other
\* record as it was.
C11_UpdateMarks ==
    [][last'.op = "update_student_marks" =>
        \A i \in 1..Len(file), new_marks \in WidgetMarks :
            UpdateMarks(i, new_marks)
            => LET k == CHOOSE n \in WithRoll(file, file[i]["roll_no"]) :
                          \A m \in WithRoll(file, file[i]["roll_no"]) : n <= m
                   loaded == load_students(file').students
               IN  IF new_marks = file[k]["marks"]
                   THEN file' = file /\ last'.saves = 0
                   ELSE /\ Len(loaded) = Len(file)
                        /\ loaded[k]["marks"] = new_marks
                        /\ loaded[k]["grade"] = calculate_grade(new_marks)
                        /\ loaded[k]["name"] = file[k]["name"]
                        /\ loaded[k]["roll_no"] = file[k]["roll_no"]
                        /\ \A j \in 1..Len(file) : j # k => loaded[j] = file[j]
                        /\ last'.saves = 1]_vars

\* a student whose grade was F has marks 100 and grade A after the update, next
\* to another record
C11_Witness ==
    /\ last.op = "update_student_marks"
    /\ last.outcome = "ok"
    /\ Len(file) = 2
    /\ \E k \in WithRoll(file, last.args[1]) :
          /\ file[k]["marks"] = Pts(100) /\ file[k]["grade"] = "A"
          /\ \E j \in 1..Len(mem) : j # k /\ mem[j] = file[j]

\* an update with the marks the student already has wrote nothing
C11_WitnessUnchanged ==
    /\ last.op = "update_student_marks"
    /\ last.outcome = "Unchanged"
    /\ last.saves = 0

\* C12: delete_student removes the records with the selected roll_no and keeps
\* every other record, in order; deleting the same roll_no again, or a roll_no
\* the collection does not hold, gives the same collection.
C12_DeleteStudent ==
    [][(last'.op = "delete_student" /\ last'.outcome = "ok") =>
        \A i \in 1..Len(file) :
            DeleteStudent(i, TRUE)
            => LET roll_no == file[i]["roll_no"]
                   gone == WithRoll(file, roll_no)
               IN  /\ Len(file') = Len(file) - Cardinality(gone)
                   /\ WithRoll(file', roll_no) = {}
                   /\ \A j \in (1..Len(file)) \ gone :
                         file'[j - Cardinality({m \in gone : m < j})] = file[j]
                   /\ Without(file', roll_no) = file'
                   /\ \A absent \in {Strip(r) : r \in RollInputs} :
                         WithRoll(file', absent) = {}
                         => save_students(Without(file', absent)) = file']_vars

\* one of two students was deleted and the other one is still there
C12_Witness ==
    /\ last.op = "delete_student"
    /\ last.outcome = "ok"
    /\ Len(mem) = 2
    /\ Len(file) = 1
    /\ file[1]["roll_no"] # last.args[1]

\* the students of f whose registered_courses name the course
Registrants(f, course_id) ==
    {i \in 1..Len(f) :
        /\ "registered_courses" \in DOMAIN f[i]
        /\ \E n \in 1..Len(f[i]["registered_courses"]) :
              f[i]["registered_courses"][n] = course_id}

\* no course of the catalogue has more registrants than max_students
WithinCapacity ==
    \A j \in 1..Len(Courses) :
        Cardinality(Registrants(file, Courses[j]["course_id"]))
            <= Courses[j]["max_students"]

\* C13: no course ever has more than max_students registrants, whatever the
\* registrations, drops and batch assignments; a registration succeeds only
\* while the count taken from the stored collection is below max_students, and
\* a course whose count has reached max_students is refused to every student.
C13_Capacity ==
    /\ []WithinCapacity
    /\ [][last'.op = "register_course" =>
            \A i \in 1..Len(file), j \in 1..Len(Courses) :
                RegisterCourse(i, j)
                => LET course_id == Courses[j]["course_id"]
                       full == Cardinality(Registrants(file, course_id))
                                  >= Courses[j]["max_students"]
                   IN  /\ full => (last'.outcome = "NotOffered" /\ file' = file)
                       /\ (~full /\ i \notin Registrants(file, course_id))
                             => /\ last'.outcome = "ok"
                                /\ Registrants(file', course_id) =
                                      Registrants(file, course_id) \cup {i}]_vars

\* a student was refused a course that holds max_students registrants, none of
\* them this student
C13_Witness ==
    /\ last.op = "register_course"
    /\ last.outcome = "NotOffered"
    /\ \E j \in 1..Len(Courses), i \in 1..Len(file) :
          /\ Courses[j]["course_id"] = last.args[2]
          /\ file[i]["roll_no"] = last.args[1]
          /\ i \notin Registrants(file, last.args[2])
          /\ Cardinality(Registrants(file, last.args[2])) = Courses[j]["max_students"]

\* C14: no student's registered_courses names a course twice, and registering a
\* course the student is registered for, or dropping one the student is not
\* registered for, leaves students.json as it was.
C14_SetSemantics ==
    /\ [](\A i \in 1..Len(file) :
             "registered_courses" \in DOMAIN file[i]
             => \A a, b \in 1..Len(file[i]["registered_courses"]) :
                   a # b => file[i]["registered_courses"][a]
                              # file[i]["registered_courses"][b])
    /\ [][\A i \in 1..Len(file), j \in 1..Len(Courses) :
            LET course_id == Courses[j]["course_id"]
            IN  /\ (RegisterCourse(i, j) /\ i \in Registrants(file, course_id))
                      => (file' = file /\ last'.saves = 0)
                /\ (DropCourse(i, course_id) /\ i \notin Registrants(file, course_id))
                      => (file' = file /\ last'.saves = 0)
                /\ (DropCourse(i, course_id) /\ i \in Registrants(file, course_id))
                      => /\ Registrants(file', course_id)
                              = Registrants(file, course_id) \ {i}
                         /\ \A c \in CourseIds \ {course_id} :
                               Registrants(file', c) = Registrants(file, c)]_vars

\* a student registered for a course of two places asked for it again
C14_Witness ==
    /\ last.op = "register_course"
    /\ last.outcome = "NotOffered"
    /\ \E i \in 1..Len(file) :
          /\ file[i]["roll_no"] = last.args[1]
          /\ i \in Registrants(file, last.args[2])
          /\ Cardinality(Registrants(file, last.args[2])) = 1
    /\ last.args[2] = "C1"

\* a student asked to drop a course the student is not registered for
C14_WitnessDrop ==
    /\ last.op = "drop_course"
    /\ last.outcome = "NotOffered"

\* the course grades a record holds
CourseGradesOf(s) == IF "course_grades" \in DOMAIN s THEN s["course_grades"] ELSE <<>>

\* marks is the arithmetic mean of the values of course_grades
IsMeanOf(marks, course_grades) ==
    marks * Cardinality(DOMAIN course_grades)
        = (IF "C1" \in DOMAIN course_grades THEN course_grades["C1"] ELSE 0)
          + (IF "C2" \in DOMAIN course_grades THEN course_grades["C2"] ELSE 0)

\* C15: when Update Grades or a course adjustment has written a student's
\* course_grades and they are not empty, the student's marks are the mean of all
\* the course grades and the grade is the grade of that mean, also for the
\* student of Update Grades whose overall marks were edited in the same press.
C15_CourseGradeMean ==
    [][(last'.op \in {"update_grades", "course_adjust"} /\ last'.outcome = "ok") =>
        \A i \in 1..Len(file') :
            ( /\ CourseGradesOf(file'[i]) # <<>>
              /\ \/ CourseGradesOf(file'[i]) # CourseGradesOf(file[i])
                 \/ /\ last'.op = "update_grades"
                    /\ file'[i]["roll_no"] = last'.args[1] )
            => /\ IsMeanOf(file'[i]["marks"], file'[i]["course_grades"])
               /\ file'[i]["grade"] = calculate_grade(file'[i]["marks"])]_vars

\* C16: the collection is emptied by the reset only in a step that finds
\* show_reset_modal true; show_reset_modal becomes true only by the Reset All
\* Data button, which leaves the collection as it was; Cancel sets it back to
\* false and leaves the collection as it was; after the confirmation the
\* collection is empty and show_reset_modal is false.  Apart from the reset only
\* a delete empties a collection that held records.
C16_ResetTwoStep ==
    [][ /\ (last'.op = "reset_all_data" /\ last'.outcome = "ok")
            => (show_reset_modal /\ ~show_reset_modal' /\ file' = <<>>)
        /\ (last'.op = "reset_all_data" /\ last'.outcome = "cancelled")
            => (show_reset_modal /\ ~show_reset_modal' /\ file' = file)
        /\ (~show_reset_modal /\ show_reset_modal')
            => (last'.op = "reset_button" /\ file' = file)
        /\ (show_reset_modal /\ ~show_reset_modal') => last'.op = "reset_all_data"
        /\ (file # <<>> /\ file' = <<>>)
            => \/ last'.op = "reset_all_data" /\ show_reset_modal
               \/ last'.op = "delete_student"
        /\ last'.op = "reset_button" => file' = file ]_vars

\* the confirmation has emptied a store of two students
C16_Witness ==
    /\ last.op = "reset_all_data"
    /\ last.outcome = "ok"
    /\ Len(mem) = 2
    /\ file = <<>>
    /\ ~show_reset_modal

\* the reset was cancelled and the students are still there
C16_WitnessCancel ==
    /\ last.op = "reset_all_data"
    /\ last.outcome = "cancelled"
    /\ file # <<>>
    /\ ~show_reset_modal

\* C17: load_students never fails its caller: with students.json absent it
\* returns the empty list and leaves a file holding the empty list; with a file
\* that is not JSON, or JSON that is not an array of records, it returns the
\* empty list.
C17_LoadNeverFails ==
    last.op = "load_students" =>
        /\ last.outcome = "ok"
        /\ last.args[1] = "absent" => (mem = <<>> /\ on_disk = "records" /\ file = <<>>)
        /\ last.args[1] # "records" => mem = <<>>

\* the cases of C17 that the code handles: an absent file and a file that is
\* not JSON
LoadAbsentOrInvalid ==
    (last.op = "load_students" /\ last.args[1] \in {"absent", "invalid_json"}) =>
        /\ last.outcome = "ok"
        /\ mem = <<>>
        /\ last.args[1] = "absent" => (on_disk = "records" /\ file = <<>>)

\* C18: after load_students every record returned has a grade (for a record
\* that had none: the grade of its marks, or F when the marks are not a number)
\* and registered_courses (empty where there was none); a changed collection is
\* saved, once; and a second load right after writes nothing and returns the
\* same collection.
C18_BackfillComplete ==
    [][(last'.op = "load_students" /\ last'.args[1] = "records") =>
        /\ Len(mem') = Len(file)
        /\ \A i \in 1..Len(file) :
              /\ "grade" \in DOMAIN mem'[i]
              /\ "registered_courses" \in DOMAIN mem'[i]
              /\ "grade" \notin DOMAIN file[i] =>
                    mem'[i]["grade"] =
                        IF "marks" \in DOMAIN file[i] /\ file[i]["marks"] # NotANumber
                        THEN calculate_grade(file[i]["marks"])
                        ELSE "F"
              /\ "registered_courses" \notin DOMAIN file[i] =>
                    mem'[i]["registered_courses"] = <<>>
              /\ \A k \in DOMAIN file[i] : mem'[i][k] = file[i][k]
        /\ IF mem' # file
           THEN file' = mem' /\ last'.saves = 1
           ELSE file' = file /\ last'.saves = 0
        /\ load_students(file').saves = 0
        /\ load_students(file').students = mem'
        /\ load_students(file').file = file']_vars

\* C18 for the records that have marks
BackfillWithMarks ==
    [][(last'.op = "load_students" /\ last'.args[1] = "records") =>
        /\ \A i \in 1..Len(file) :
              "marks" \in DOMAIN file[i] =>
                 /\ "grade" \in DOMAIN mem'[i]
                 /\ "registered_courses" \in DOMAIN mem'[i]
                 /\ "grade" \notin DOMAIN file[i] =>
                       mem'[i]["grade"] =
                           IF file[i]["marks"] # NotANumber
                           THEN calculate_grade(file[i]["marks"])
                           ELSE "F"
        /\ IF mem' # file
           THEN file' = mem' /\ last'.saves = 1
           ELSE file' = file /\ last'.saves = 0
        /\ load_students(file').saves = 0
        /\ load_students(file').students = mem']_vars

\* the credentials of list with this email
WithEmail(list, email) == {i \in 1..Len(list) : list[i]["email"] = email}

\* C19: no two credentials of teachers.json have the same email, and
\* register_teacher with an email that is stored reports the duplicate and
\* leaves teachers.json as it was.
C19_UniqueEmail ==
    /\ [](\A i, j \in 1..Len(teachers) :
             i # j => teachers[i]["email"] # teachers[j]["email"])
    /\ [][last'.op = "register_teacher" =>
            \A email \in EmailInputs, password \in PasswordInputs,
               name \in TeacherNames, salt \in Salts, now \in Times :
               ( /\ RegisterTeacher(email, password, name, salt, now)
                 /\ WithEmail(teachers, email) # {} )
               => (last'.outcome = "DuplicateKey" /\ teachers' = teachers)]_vars

\* C20 as stated: register_teacher with an empty field or a password of fewer
\* than 6 characters reports a validation error and leaves teachers.json as it
\* was; a successful call appends exactly one credential.
C20_ValidationAlways ==
    [][last'.op = "register_teacher" =>
        \A email \in EmailInputs, password \in PasswordInputs,
           name \in TeacherNames, salt \in Salts, now \in Times :
           RegisterTeacher(email, password, name, salt, now)
           => /\ (email = <<>> \/ password = <<>> \/ name = <<>> \/ Len(password) < 6)
                   => (last'.outcome = "ValidationError" /\ teachers' = teachers)
              /\ last'.outcome = "ok"
                   => /\ Len(teachers') = Len(teachers) + 1
                      /\ SubSeq(teachers', 1, Len(teachers)) = teachers]_vars

\* C20 as amended: with an email that is not stored, register_teacher with a
\* field that is empty or blank or a password of fewer than 6 characters
\* reports a validation error; with an email that is stored it reports the
\* duplicate whatever the other fields are; both leave teachers.json as it was.
\* Any other call succeeds and appends exactly one credential, with the trimmed
\* email and name, the salt drawn and the hash of the password with that salt.
C20_Validation ==
    [][last'.op = "register_teacher" =>
        \A email \in EmailInputs, password \in PasswordInputs,
           name \in TeacherNames, salt \in Salts, now \in Times :
           RegisterTeacher(email, password, name, salt, now)
           => IF WithEmail(teachers, email) # {}
              THEN last'.outcome = "DuplicateKey" /\ teachers' = teachers
              ELSE IF \/ Strip(email) = <<>> \/ Strip(password) = <<>>
                      \/ Strip(name) = <<>> \/ Len(password) <= 5
              THEN last'.outcome = "ValidationError" /\ teachers' = teachers
              ELSE /\ last'.outcome = "ok"
                   /\ teachers' =
                         Append(teachers,
                                [email |-> Strip(email), name |-> Strip(name),
                                 salt |-> salt, created_at |-> now,
                                 password_hash |-> <<"sha256", password \o salt>>])]_vars

\* a registration with a new email was refused for its input while a credential
\* was stored
C20_Witness ==
    /\ last.op = "register_teacher"
    /\ last.outcome = "ValidationError"
    /\ teachers # <<>>
    /\ Strip(last.args[1]) # <<>>
    /\ WithEmail(teachers, last.args[1]) = {}

\* C21: login_teacher(email, password) answers NotFound when no stored record has
\* the email, InvalidCredentials when the digest of password and the salt of the
\* record with that email is not its password_hash, and otherwise succeeds with a
\* view that has exactly email, name and created_at of that record; teachers.json
\* is the same after the call in each case.
Located(email) ==
    {i \in 1..Len(teachers) :
        /\ teachers[i]["email"] = email
        /\ \A j \in 1..(i - 1) : teachers[j]["email"] # email}

C21_Login ==
    [][last'.op = "login_teacher" =>
         LET email == last'.args[1]
             password == last'.args[2]
             view == last'.args[3]
         IN  /\ teachers' = teachers
             /\ Located(email) = {} =>
                   last'.outcome = "NotFound" /\ view = None
             /\ \A i \in Located(email) :
                   IF teachers[i]["password_hash"]
                        # sha256(password \o teachers[i]["salt"])
                   THEN last'.outcome = "InvalidCredentials" /\ view = None
                   ELSE /\ last'.outcome = "ok"
                        /\ DOMAIN view = {"email", "name", "created_at"}
                        /\ view["email"] = teachers[i]["email"]
                        /\ view["name"] = teachers[i]["name"]
                        /\ view["created_at"] = teachers[i]["created_at"]]_vars

C21_Witness ==
    /\ last.op = "login_teacher"
    /\ last.outcome = "ok"
    /\ last.args[3] # None

C21_WitnessInvalid ==
    /\ last.op = "login_teacher"
    /\ last.outcome = "InvalidCredentials"

C21_WitnessNotFound ==
    /\ last.op = "login_teacher"
    /\ last.outcome = "NotFound"
    /\ Len(teachers) > 0
\* C22: a record that register_teacher appends has as password_hash the digest
\* of the registration password followed by the salt stored with it, has the
\* fields email, password_hash, salt, name and created_at and none of them is
\* the password; and for every stored hash and salt, verify_password(p, hash,
\* salt) is true exactly for the passwords p whose digest with that salt is hash.
C22_SaltedHash ==
    /\ [](\A i \in 1..Len(teachers), p \in PasswordInputs :
             verify_password(p, teachers[i]["password_hash"], teachers[i]["salt"])
             <=> teachers[i]["password_hash"] = sha256(p \o teachers[i]["salt"]))
    /\ [][last'.op = "register_teacher" /\ last'.outcome = "ok" =>
            \A email \in EmailInputs, password \in PasswordInputs,
               name \in TeacherNames, salt \in Salts, now \in Times :
               RegisterTeacher(email, password, name, salt, now)
               => LET teacher == teachers'[Len(teachers')]
                  IN  /\ Len(teachers') = Len(teachers) + 1
                      /\ \A i \in 1..Len(teachers) : teachers'[i] = teachers[i]
                      /\ teacher["password_hash"] = sha256(password \o teacher["salt"])
                      /\ DOMAIN teacher = {"email", "password_hash", "salt",
                                           "name", "created_at"}
                      /\ \A k \in {"email", "password_hash", "salt", "name"} :
                             teacher[k] # password]_vars

\* two credentials are stored, and the password of the first does not verify
\* against the second
C22_Witness ==
    /\ last.op = "register_teacher"
    /\ last.outcome = "ok"
    /\ Len(teachers) = 2
    /\ \E p \in PasswordInputs :
          /\ verify_password(p, teachers[1]["password_hash"], teachers[1]["salt"])
          /\ ~verify_password(p, teachers[2]["password_hash"], teachers[2]["salt"])
\* C26: a call login_teacher(email, password) that follows a successful
\* register_teacher(email, password, name) with the same email and password
\* succeeds and returns the name that was registered.
C26_RoundTrip ==
    [][( /\ last.op = "register_teacher"
         /\ last.outcome = "ok"
         /\ last'.op = "login_teacher"
         /\ last'.args[1] = last.args[1]
         /\ last'.args[2] = last.args[2] )
       => /\ last'.outcome = "ok"
          /\ last'.args[3]["name"] = Strip(last.args[3])]_vars
\* C25: the marks of every student of students.json are between 0 and 100,
\* whatever sequence of add_student, upload_file, update_student_marks, Update
\* Grades, Apply Bulk Adjustment and Apply Course Adjustment has run.
C25_MarksInRange ==
    \A i \in 1..Len(file) :
       Pts(0) <= file[i]["marks"] /\ file[i]["marks"] <= Pts(100)

\* a bulk adjustment of +50 was saved and left a student at 100
C25_Witness ==
    /\ last.op = "bulk_adjust"
    /\ last.outcome = "ok"
    /\ last.args = <<Pts(50)>>
    /\ \E i \in 1..Len(file) : file[i]["marks"] = Pts(100)
\* C27: in students.json every course_id that is a key of a student's
\* course_grades is one of the student's registered_courses, whatever sequence of
\* course registrations, drops and course-grade updates has run.
C27_GradedCoursesRegistered ==
    \A i \in 1..Len(file) :
       \A c \in DOMAIN Get(file[i], "course_grades", <<>>) :
          Registered(file[i], c)
\* C28: Apply Bulk Adjustment leaves the students whose marks are outside
\* [min_range, max_range] as they are and changes nothing but marks and grade of
\* the others: the course_grades, registered_courses and attendance of every
\* student of students.json are the same before and after, whatever the inputs
\* of the Update Grades tab hold.
C28_BulkAdjustFrame ==
    [][last'.op = "bulk_adjust" =>
         \A range \in RangeInputs, adj \in AdjustInputs,
            sel \in 1..MaxStudents, widgets \in CourseEdits :
            BulkAdjust(range, adj, sel, widgets)
            => /\ Len(file') = Len(file)
               /\ \A i \in 1..Len(file) :
                     /\ DOMAIN file'[i] = DOMAIN file[i]
                     /\ \A k \in DOMAIN file[i] \ {"marks", "grade"} :
                           file'[i][k] = file[i][k]
                     /\ ~(range[1] <= file[i]["marks"] /\ file[i]["marks"] <= range[2])
                           => file'[i] = file[i]]_vars
\* C29: students.json changes only in a step of a session whose authenticated is
\* true; authenticated turns true only in a show_login_form step whose email and
\* password are those of a stored credential; while it is true teacher_data is
\* not None; and logout leaves authenticated false and teacher_data None.
C29_AuthenticatedSession ==
    /\ [](authenticated => teacher_data # None)
    /\ [][file' # file => authenticated]_vars
    /\ [][~authenticated /\ authenticated' =>
            /\ last'.op = "show_login_form"
            /\ \E i \in 1..Len(teachers) :
                  /\ teachers[i]["email"] = last'.args[1]
                  /\ teachers[i]["password_hash"]
                        = sha256(last'.args[2] \o teachers[i]["salt"])
                  /\ teacher_data'["email"] = teachers[i]["email"]]_vars
    /\ [][last'.op = "logout" => ~authenticated' /\ teacher_data' = None]_vars

\* a student was added in a session that logged in, logged out and logged in
\* again
C29_Witness ==
    /\ authenticated
    /\ last.op = "add_student"
    /\ last.outcome = "ok"
    /\ Len(file) = 2

C29_WitnessLogout ==
    /\ last.op = "logout"
    /\ file = <<>>
\* C30: between two script runs of an authenticated session, every label that
\* main() dispatches on can be the menu_option of the next run: for each of
\* them, and for Update Marks in particular, the sidebar can start a run that
\* shows its page.
C30_EveryPageReachable ==
    (pc = "idle" /\ authenticated)
    => \A option \in Dispatched : ENABLED (MainSidebar /\ menu_option' = option)

\* no script run that starts in the sidebar shows the Update Marks page
C30_UpdateMarksNotShown == menu_option # "Update Marks"
\* C23: when a writer dumps its list into the file it emptied, after another
\* writer has finished a save that changed records this writer did not load, the
\* file holds the list of this writer without the records the other changed, it
\* is complete, and both writers have ended without an error.
C23_LastSaveWins ==
    [][\A w \in WriterIds, v \in WriterIds :
          ( /\ v # w
            /\ last'.op = "writer_dump"
            /\ last'.args = <<w>>
            /\ on_disk = "truncated"
            /\ writers[v].pc = "done"
            /\ Changed(v) # {}
            /\ Changed(v) \cap Records(writers[w].loaded) = {} )
          => /\ on_disk' = "records"
             /\ file' = writers[w].students
             /\ Changed(v) \cap Records(file') = {}
             /\ writers'[w].pc = "done"
             /\ writers'[v].pc = "done"]_vars

\* both writers loaded the same store, add_student saved a new student, then
\* assign_courses.py saved, and the file does not hold the new student
C23_Witness ==
    /\ last.op = "writer_dump"
    /\ last.args = <<"assign_courses">>
    /\ on_disk = "records"
    /\ writers["add_student"].pc = "done"
    /\ writers["assign_courses"].pc = "done"
    /\ writers["add_student"].loaded = writers["assign_courses"].loaded
    /\ writers["add_student"].loaded # <<>>
    /\ Changed("add_student") # {}
    /\ Changed("add_student") \cap Records(file) = {}
    /\ file = writers["assign_courses"].students

\* the same with the writers in the other order: the courses the script assigned
\* are not in the file
C23_WitnessOtherOrder ==
    /\ last.op = "writer_dump"
    /\ last.args = <<"add_student">>
    /\ on_disk = "records"
    /\ writers["assign_courses"].pc = "done"
    /\ writers["add_student"].loaded = writers["assign_courses"].loaded
    /\ writers["add_student"].loaded # <<>>
    /\ Changed("assign_courses") # {}
    /\ Changed("assign_courses") \cap Records(file) = {}

\* C24: no load of students.json runs while a save has emptied the file and not
\* yet written its list, or while the file holds broken text: every load reads
\* the list the file held before a save or the list a save wrote.
C24_AtomicSave ==
    [][last'.op = "writer_load" => on_disk = "records"]_vars
====
